---- MODULE Spec2Model ----
(***************************************************************************)
(* Model of src/script.js: the reduced-motion-aware effect coordinator of  *)
(* the portfolio page (section navigator, typing presenter, card hover     *)
(* responder, parallax responder, screen-reader announcer).                *)
(*                                                                         *)
(* The browser is a single event loop.  A state is the page (the parts of  *)
(* the element tree the script reads or writes), the script's variables    *)
(* and closures, and the pending timers.  Every action is one task of the  *)
(* event loop: one event handler or one timer callback, run to completion. *)
(* Time is kept as the remaining delay of every pending timer.             *)
(***************************************************************************)
EXTENDS Integers, Sequences, FiniteSets, TLC

\* ----------------------------------------------------------------- bounds
MaxLen == 2          \* longest subtitle text
MaxScrollSteps == 2  \* scroll offsets a user scroll can reach: 0, 100, .., 100 * MaxScrollSteps
MaxAnnounce == 2     \* announcements alive at once
NumCards == 2        \* project cards on the page

\* ------------------------------------------------------ program constants
StartupDelay == 1000     \* setTimeout(..., 1000) of initTypingEffect
TypingPeriod == 50       \* setInterval(typeWriter, 50)
ScrollDelay == 16        \* setTimeout(..., 16) of the scroll listener
ActiveMargin == 200      \* sectionTop - 200
TabindexDelay == 100     \* setTimeout(..., 100) of navigateToSection
AnnounceDelay == 1000    \* setTimeout(..., 1000) of announceToScreenReader

\* ------------------------------------------------------------ page layout
Chars == {"a", "b"}
Texts == UNION {[1..n -> Chars] : n \in 0..MaxLen}
Sections == <<"header", "about", "skills", "projects", "experience">>
SectionIds == {Sections[k] : k \in 1..Len(Sections)}
\* "contact" stands for an id outside the fixed list of updateActiveNavigation
AllIds == SectionIds \cup {"contact"}
Tops == {0, 300}
ScrollOffsets == {100 * k : k \in 0..MaxScrollSteps}
Cards == 1..NumCards
Lifted == "translateY(-10px) rotateX(5deg)"
Rest == "translateY(0) rotateX(0deg)"
Capitalized == [s \in AllIds |->
    CASE s = "header" -> "Header" [] s = "about" -> "About"
      [] s = "skills" -> "Skills" [] s = "projects" -> "Projects"
      [] s = "experience" -> "Experience" [] OTHER -> "Contact"]

VARIABLES
    \* the page as served (unchanged by the script, kept across a reload)
    present,          \* ids for which document.getElementById finds an element
    offsetTop,        \* offsetTop of each present section
    dotSections,      \* data-section values of the .nav-dot elements
    subtitlePresent,  \* whether document.querySelector('.subtitle') finds one
    text,             \* the subtitle's text content as served
    \* preference and lifecycle
    mediaMatches,          \* matchMedia('(prefers-reduced-motion: reduce)').matches
    prefersReducedMotion,  \* the script's const, read once at evaluation
    domLoaded,             \* DOMContentLoaded handled (change listener registered)
    skipLink,              \* the skip-to-content link is in the body
    timers,                \* pending timers, in the order they were scheduled
    fault,                 \* a handler threw
    \* typing presenter
    subtitleText, ariaLive, i, typingInterval, skipButton, skipListener,
    removals,         \* removeChild calls made on the skip button
    skipped,          \* the skip handler has run
    tickedAfterSkip,  \* typeWriter ran after the skip handler
    \* section navigator
    scrollY, scrollTimeout, dots, sinceTrigger, lastScroll,
    tabindex, focused, announcements,
    lastNav,           \* the data-section of the dot navigateToSection was last called on
    renavigated,       \* that call repeated the one before it on the same dot: "overlapped"
                       \* (timers of the earlier call pending), "after" (none), "" (no repeat)
    defaultPrevented,  \* the last keydown on a dot had preventDefault called
    \* parallax responder
    parallaxListener, ticking, rafQueue, backgroundPosition,
    \* card hover responder
    cardStyle,
    hovered,       \* the card under the pointer (0: none)
    focusedCard,   \* the card holding input focus (0: none)
    preHover,      \* each card's transform when its last mouseenter arrived
    preFocus       \* each card's transform when its last focus arrived

layoutVars == <<present, offsetTop, dotSections, subtitlePresent, text>>
typingVars == <<subtitleText, ariaLive, i, typingInterval, skipButton, skipListener,
                removals, skipped, tickedAfterSkip>>
scrollVars == <<scrollY, scrollTimeout, dots, sinceTrigger>>
navVars == <<lastScroll, tabindex, focused, announcements, lastNav, renavigated,
            defaultPrevented>>
parallaxVars == <<parallaxListener, ticking, rafQueue, backgroundPosition>>
cardVars == <<cardStyle, hovered, focusedCard, preHover, preFocus>>
vars == <<layoutVars, mediaMatches, prefersReducedMotion, domLoaded, skipLink, timers,
          fault, typingVars, scrollVars, navVars, parallaxVars, cardVars>>

\* ----------------------------------------------------------------- timers
\* A timer: id (the handle setTimeout/setInterval returned, 0 where the script
\* drops the handle and so can never cancel the timer), kind (its callback), left (ms
\* until it is due), period (0 for a one-shot), sec/el (what the callback closes over).
Timer(id, kind, delay, period, sec, el) ==
    [id |-> id, kind |-> kind, left |-> delay, period |-> period, sec |-> sec, el |-> el]

TimerIds(ts) == {ts[k].id : k \in 1..Len(ts)} \ {0}

\* Handles are never reused by the browser: a fresh one differs from every pending
\* timer and from every handle the script still holds.
NewId(ts, held) ==
    CHOOSE n \in 1..(Len(ts) + Cardinality(held) + 1) : n \notin TimerIds(ts) \cup held

RemoveAt(ts, k) == SubSeq(ts, 1, k - 1) \o SubSeq(ts, k + 1, Len(ts))

\* a listener that never cancels its pending timer
ClearNothing(ts, h) == ts

\* clearTimeout / clearInterval: cancels the timer with that handle, if pending;
\* any other value (undefined, modelled as 0, or a handle already fired or cleared)
\* is ignored.
ClearTimer(ts, h) == IF h = 0 THEN ts ELSE SelectSeq(ts, LAMBDA t : t.id # h)

MinLeft(ts) == CHOOSE m \in {ts[k].left : k \in 1..Len(ts)} :
                   \A k \in 1..Len(ts) : m <= ts[k].left

Elapse(ts, d) == [k \in 1..Len(ts) |-> [ts[k] EXCEPT !.left = @ - d]]

\* the first timer that is due, in scheduling order (0 if none)
DueIndex(ts) ==
    IF \E k \in 1..Len(ts) : ts[k].left = 0
    THEN CHOOSE k \in 1..Len(ts) :
             ts[k].left = 0 /\ \A j \in 1..(k - 1) : ts[j].left # 0
    ELSE 0

HeldHandles == {typingInterval, scrollTimeout} \ {0}

\* --------------------------------------------------- script evaluation
\* lines 6-28: every .nav-dot gets role, tabindex and its "Navigate to" label
NavigateLabel(s) == <<"Navigate to ", Capitalized[s], " section">>
CurrentLabel(s) == <<"Current section: ", Capitalized[s]>>
InitDots == [d \in dotSections |->
                [active |-> FALSE, ariaCurrent |-> "", label |-> NavigateLabel(d)]]
\* lines 101-108: cards carry no inline style before the first event
InitCardStyle == [c \in Cards |->
                     [transform |-> "", transition |-> "", outline |-> "", outlineOffset |-> ""]]

Layout ==
    /\ present \in SUBSET AllIds
    /\ offsetTop \in [AllIds -> Tops]
    /\ \A s \in AllIds \ present : offsetTop[s] = 0
    /\ dotSections \in SUBSET AllIds
    /\ subtitlePresent \in BOOLEAN
    /\ text \in Texts
    /\ (~subtitlePresent => text = <<>>)

\* The state once the script has been evaluated (lines 1-141), before
\* DOMContentLoaded.
Evaluated ==
    /\ domLoaded = FALSE
    /\ skipLink = FALSE
    /\ timers = <<>>
    /\ fault = FALSE
    /\ subtitleText = text
    /\ ariaLive = FALSE
    /\ i = 0
    /\ typingInterval = 0
    /\ skipButton = "none"
    /\ skipListener = FALSE
    /\ removals = 0
    /\ skipped = FALSE
    /\ tickedAfterSkip = FALSE
    /\ scrollY = 0
    /\ scrollTimeout = 0
    /\ dots = InitDots
    /\ sinceTrigger = -1
    /\ lastScroll = [sec |-> "", behavior |-> ""]
    /\ tabindex = [s \in AllIds |-> ""]
    /\ focused = "body"
    /\ announcements = {}
    /\ lastNav = ""
    /\ renavigated = ""
    /\ defaultPrevented = FALSE
    /\ parallaxListener = FALSE
    /\ ticking = FALSE
    /\ rafQueue = 0
    /\ backgroundPosition = -1
    /\ cardStyle = InitCardStyle
    /\ hovered = 0
    /\ focusedCard = 0
    /\ preHover = [c \in Cards |-> ""]
    /\ preFocus = [c \in Cards |-> ""]

\* location.reload() (line 272): the page is served and the script evaluated anew
Reload ==
    /\ prefersReducedMotion' = mediaMatches'
    /\ domLoaded' = FALSE
    /\ skipLink' = FALSE
    /\ timers' = <<>>
    /\ fault' = FALSE
    /\ subtitleText' = text
    /\ ariaLive' = FALSE
    /\ i' = 0
    /\ typingInterval' = 0
    /\ skipButton' = "none"
    /\ skipListener' = FALSE
    /\ removals' = 0
    /\ skipped' = FALSE
    /\ tickedAfterSkip' = FALSE
    /\ scrollY' = 0
    /\ scrollTimeout' = 0
    /\ dots' = InitDots
    /\ sinceTrigger' = -1
    /\ lastScroll' = [sec |-> "", behavior |-> ""]
    /\ tabindex' = [s \in AllIds |-> ""]
    /\ focused' = "body"
    /\ announcements' = {}
    /\ lastNav' = ""
    /\ renavigated' = ""
    /\ defaultPrevented' = FALSE
    /\ parallaxListener' = FALSE
    /\ ticking' = FALSE
    /\ rafQueue' = 0
    /\ backgroundPosition' = -1
    /\ cardStyle' = InitCardStyle
    /\ hovered' = 0
    /\ focusedCard' = 0
    /\ preHover' = [c \in Cards |-> ""]
    /\ preFocus' = [c \in Cards |-> ""]

\* line 3: the preference is read once, when the script is evaluated
Started ==
    /\ mediaMatches \in BOOLEAN
    /\ prefersReducedMotion = mediaMatches
    /\ Evaluated

Init ==
    /\ Layout
    /\ Started

WindowCap == 32      \* the time since a scroll window opened is tracked up to here

\* ------------------------------------------------------- typing presenter
\* removeSkipButton (lines 211-215): the button after the call
RemoveSkipButton(b) == IF b = "attached" THEN "detached" ELSE b
\* removeSkipButton without its parentNode guard: removeChild is called every time
RemoveChildCallsUnguarded(b) == 1
\* removeSkipButton: the removeChild calls it makes (0 or 1)
RemoveChildCalls(b) == IF b = "attached" THEN 1 ELSE 0

\* initTypingEffect (lines 144-186), with createSkipAnimationButton (188-209)
InitTypingEffect ==
    IF ~subtitlePresent
    THEN UNCHANGED <<typingVars, timers>>
    ELSE /\ skipButton' = "attached"
         /\ UNCHANGED <<removals, skipped, tickedAfterSkip, typingInterval, i>>
         /\ IF ~prefersReducedMotion
            THEN /\ subtitleText' = <<>>
                 /\ ariaLive' = TRUE
                 /\ timers' = Append(timers, Timer(0, "startup", StartupDelay, 0, "", 0))
                 /\ skipListener' = TRUE
            ELSE /\ subtitleText' = text
                 /\ UNCHANGED <<ariaLive, timers, skipListener>>

\* the startup timeout's callback (lines 171-173): typingInterval = setInterval(...)
StartTyping ==
    /\ DueIndex(timers) # 0
    /\ timers[DueIndex(timers)].kind = "startup"
    /\ LET rest == RemoveAt(timers, DueIndex(timers))
           id == NewId(rest, HeldHandles)
       IN /\ typingInterval' = id
          /\ timers' = Append(rest, Timer(id, "typeWriter", TypingPeriod, TypingPeriod, "", 0))
    /\ UNCHANGED <<layoutVars, mediaMatches, prefersReducedMotion, domLoaded, skipLink, fault,
                   subtitleText, ariaLive, i, skipButton, skipListener, removals, skipped,
                   tickedAfterSkip, scrollVars, navVars, parallaxVars, cardVars>>

\* typeWriter appending the text's first character every time
CharAtFirst(t, n) == t[1]

\* text.charAt(n) (line 161), n counted from 0
CharAt(t, n) == t[n + 1]

\* typeWriter (lines 159-168), run by the interval
TypeWriter ==
    /\ DueIndex(timers) # 0
    /\ timers[DueIndex(timers)].kind = "typeWriter"
    /\ LET k == DueIndex(timers)
           rearmed == [timers EXCEPT ![k].left = timers[k].period]
       IN IF i < Len(text)
          THEN /\ subtitleText' = Append(subtitleText, CharAt(text, i))
               /\ i' = i + 1
               /\ timers' = rearmed
               /\ UNCHANGED <<skipButton, removals, ariaLive>>
          ELSE /\ timers' = ClearTimer(rearmed, typingInterval)
               /\ skipButton' = RemoveSkipButton(skipButton)
               /\ removals' = removals + RemoveChildCalls(skipButton)
               /\ ariaLive' = FALSE
               /\ UNCHANGED <<subtitleText, i>>
    /\ tickedAfterSkip' = (tickedAfterSkip \/ skipped)
    /\ UNCHANGED <<layoutVars, mediaMatches, prefersReducedMotion, domLoaded, skipLink, fault,
                   typingInterval, skipListener, skipped,
                   scrollVars, navVars, parallaxVars, cardVars>>

\* the skip button's click handler (lines 176-181)
SkipClick ==
    /\ skipListener
    /\ timers' = ClearTimer(timers, typingInterval)
    /\ subtitleText' = text
    /\ skipButton' = RemoveSkipButton(skipButton)
    /\ removals' = removals + RemoveChildCalls(skipButton)
    /\ ariaLive' = FALSE
    /\ skipped' = TRUE
    /\ UNCHANGED <<layoutVars, mediaMatches, prefersReducedMotion, domLoaded, skipLink, fault,
                   i, typingInterval, skipListener, tickedAfterSkip,
                   scrollVars, navVars, parallaxVars, cardVars>>

\* ------------------------------------------------------ section navigator
\* updateActiveNavigation, lines 71-81: the last section of the fixed list that is
\* on the page and whose top minus the margin is at or above offset y ("" if none)
\* the forEach stopping at the first match instead of letting later sections override
RECURSIVE CurrentFirstMatch(_, _, _)
CurrentFirstMatch(k, cur, y) ==
    IF k > Len(Sections) THEN cur
    ELSE IF Sections[k] \in present /\ y >= offsetTop[Sections[k]] - ActiveMargin
         THEN Sections[k]
         ELSE CurrentFirstMatch(k + 1, cur, y)

RECURSIVE CurrentFrom(_, _, _)
CurrentFrom(k, cur, y) ==
    IF k > Len(Sections) THEN cur
    ELSE CurrentFrom(k + 1,
                     IF Sections[k] \in present /\ y >= offsetTop[Sections[k]] - ActiveMargin
                     THEN Sections[k] ELSE cur,
                     y)
Current(y) == CurrentFrom(1, "", y)

\* the dots' class and label updated, aria-current left as it was
MarkDotsStaleAria(cur) ==
    [d \in dotSections |->
        [active |-> (d = cur),
         ariaCurrent |-> dots[d].ariaCurrent,
         label |-> IF d = cur THEN CurrentLabel(d) ELSE NavigateLabel(d)]]

\* updateActiveNavigation, lines 83-97: every dot's class, aria-current and label
MarkDots(cur) ==
    [d \in dotSections |->
        [active |-> (d = cur),
         ariaCurrent |-> IF d = cur THEN "true" ELSE "false",
         label |-> IF d = cur THEN CurrentLabel(d) ELSE NavigateLabel(d)]]

UpdateActiveNavigation(y) == MarkDots(Current(y))

\* ------------------------------------------------------------- lifecycle
\* initParallaxEffect attaching its scroll listener whatever the preference
ParallaxAlwaysAttached == TRUE

\* initParallaxEffect (lines 218-235): whether it attaches its scroll listener
InitParallaxEffect == ~prefersReducedMotion

\* the DOMContentLoaded handler (lines 260-274): addSkipToContentLink (277-304),
\* initTypingEffect, initParallaxEffect (218-235), updateActiveNavigation, and the
\* registration of the preference change listener
DOMContentLoaded ==
    /\ ~domLoaded
    /\ skipLink' = TRUE
    /\ InitTypingEffect
    /\ parallaxListener' = InitParallaxEffect
    /\ dots' = UpdateActiveNavigation(scrollY)
    /\ domLoaded' = TRUE
    /\ UNCHANGED <<layoutVars, mediaMatches, prefersReducedMotion, fault,
                   scrollY, scrollTimeout, sinceTrigger, navVars,
                   ticking, rafQueue, backgroundPosition, cardVars>>

\* The external preference changes.  With the change listener registered the page
\* reloads (line 272): the script is evaluated again and reads the new value.
\* Before DOMContentLoaded nobody listens.
MediaChange ==
    /\ mediaMatches' = ~mediaMatches
    /\ UNCHANGED layoutVars
    /\ IF domLoaded
       THEN Reload
       ELSE UNCHANGED <<prefersReducedMotion, domLoaded, skipLink, timers, fault,
                        typingVars, scrollVars, navVars, parallaxVars, cardVars>>

\* Time passes: by q ms, or up to the next due time if that is sooner.  A due timer
\* runs before time passes on.
Tick(q) ==
    /\ timers # <<>>
    /\ MinLeft(timers) > 0
    /\ LET d == IF q < MinLeft(timers) THEN q ELSE MinLeft(timers)
       IN /\ timers' = Elapse(timers, d)
          /\ sinceTrigger' = IF sinceTrigger < 0 THEN -1
                             ELSE IF sinceTrigger + d > WindowCap THEN WindowCap
                             ELSE sinceTrigger + d
    /\ UNCHANGED <<layoutVars, mediaMatches, prefersReducedMotion, domLoaded, skipLink,
                   fault, typingVars, scrollY, scrollTimeout, dots, navVars,
                   parallaxVars, cardVars>>

\* ------------------------------------------- the typing presenter's page
\* A page with a subtitle and nothing else; time in steps of the typing period.
InitTyping ==
    /\ present = {}
    /\ offsetTop = [s \in AllIds |-> 0]
    /\ dotSections = {}
    /\ subtitlePresent = TRUE
    /\ text \in Texts
    /\ Started

TickTyping == Tick(TypingPeriod)

NextTyping ==
    \/ DOMContentLoaded
    \/ MediaChange
    \/ TickTyping
    \/ StartTyping
    \/ TypeWriter
    \/ SkipClick

SpecTyping == InitTyping /\ [][NextTyping]_vars

\* the typing presenter has left Typing for Done or Skipped: it was started (the
\* skip handler is registered) and the live annotation has been removed again
TypingEnded == skipListener /\ ~ariaLive

\* C1: with Motion Preference = false, once the skip control has been activated the
\* displayed subtitle is the full source text, in that state and in every later one.
C1_SkipShowsFullText ==
    (~prefersReducedMotion /\ skipped) => subtitleText = text

\* C2: with Motion Preference = true at startup the full text is shown, no skip
\* control is ever attached to the page and no typing timer is ever created.
C2_ReducedMotionNoSkipControl ==
    prefersReducedMotion =>
        /\ skipButton # "attached"
        /\ \A k \in 1..Len(timers) : timers[k].kind \notin {"startup", "typeWriter"}
        /\ (domLoaded => subtitleText = text)

\* C3: typeWriter never runs after a skip activation.
C3_NoTypeWriterAfterSkip == ~tickedAfterSkip

\* C4: the skip control is never detached twice, and once the presenter has reached
\* Done or Skipped (by completion, skip, skip then a completion tick, or repeated
\* skip) it has been detached exactly once.
C4_SkipControlDetachedOnce ==
    /\ removals <= 1
    /\ TypingEnded => (removals = 1 /\ skipButton = "detached")

\* C4's case: a skip, then the interval ran to its completion branch, which called
\* removeSkipButton on the already detached control
C4_Witness ==
    /\ skipped
    /\ tickedAfterSkip
    /\ i = Len(text)
    /\ typingInterval # 0
    /\ timers = <<>>
    /\ removals = 1

\* ------------------------------------------------- scroll-driven behaviour
\* the frame callback moving the background as far as the page scrolled
SpeedWhole(scrolled) == scrolled * 10

\* parallax frame callback, lines 226-229: 0.5 * pageYOffset, kept in tenths of a px
Speed(scrolled) == scrolled * 5

\* A scroll event at offset y: the navigator's listener (lines 57-65) restarts its
\* timeout, and the parallax listener (lines 223-234), if attached, requests a frame
\* unless one is pending.
Scroll(y) ==
    /\ y # scrollY
    /\ scrollY' = y
    /\ LET cleared == IF scrollTimeout # 0 THEN ClearTimer(timers, scrollTimeout) ELSE timers
           id == NewId(cleared, HeldHandles)
       IN /\ scrollTimeout' = id
          /\ timers' = Append(cleared, Timer(id, "scroll", ScrollDelay, 0, "", 0))
    /\ sinceTrigger' = IF sinceTrigger < 0 THEN 0 ELSE sinceTrigger
    /\ IF parallaxListener /\ ~ticking
       THEN /\ rafQueue' = rafQueue + 1
            /\ ticking' = TRUE
       ELSE UNCHANGED <<rafQueue, ticking>>
    /\ UNCHANGED <<layoutVars, mediaMatches, prefersReducedMotion, domLoaded, skipLink, fault,
                   typingVars, dots, navVars, parallaxListener, backgroundPosition, cardVars>>

\* the scroll timeout's callback (lines 62-64)
ScrollTimeout ==
    /\ DueIndex(timers) # 0
    /\ timers[DueIndex(timers)].kind = "scroll"
    /\ timers' = RemoveAt(timers, DueIndex(timers))
    /\ dots' = UpdateActiveNavigation(scrollY)
    /\ sinceTrigger' = -1
    /\ UNCHANGED <<layoutVars, mediaMatches, prefersReducedMotion, domLoaded, skipLink, fault,
                   typingVars, scrollY, scrollTimeout, navVars, parallaxVars, cardVars>>

\* the display refreshes: the requested frame callbacks run (lines 225-231)
AnimationFrame ==
    /\ rafQueue > 0
    /\ rafQueue' = 0
    /\ backgroundPosition' = Speed(scrollY)
    /\ ticking' = FALSE
    /\ UNCHANGED <<layoutVars, mediaMatches, prefersReducedMotion, domLoaded, skipLink, timers,
                   fault, typingVars, scrollVars, navVars, parallaxListener, cardVars>>

\* A page with any of the five sections, the header at the top and the others one
\* screen down, one dot per id, no subtitle; the user scrolls.
InitScroll ==
    /\ present \in SUBSET SectionIds
    /\ offsetTop = [s \in AllIds |-> IF s \in present \ {"header"} THEN 300 ELSE 0]
    /\ dotSections = AllIds
    /\ subtitlePresent = FALSE
    /\ text = <<>>
    /\ Started

\* Every page of sections: any of the five present, each at any of the tops.  The
\* visitor prefers reduced motion and keeps the preference, so only the navigator's
\* scroll listener is attached.
InitMarker ==
    /\ present \in SUBSET SectionIds
    /\ offsetTop \in [AllIds -> Tops]
    /\ \A s \in AllIds \ present : offsetTop[s] = 0
    /\ dotSections = AllIds
    /\ subtitlePresent = FALSE
    /\ text = <<>>
    /\ mediaMatches = TRUE
    /\ prefersReducedMotion = mediaMatches
    /\ Evaluated

TickScroll == Tick(ScrollDelay \div 2)

NextScroll ==
    \/ DOMContentLoaded
    \/ MediaChange
    \/ \E y \in ScrollOffsets : Scroll(y)
    \/ TickScroll
    \/ ScrollTimeout
    \/ AnimationFrame

SpecScroll == InitScroll /\ [][NextScroll]_vars

NextMarker ==
    \/ DOMContentLoaded
    \/ \E y \in ScrollOffsets : Scroll(y)
    \/ TickScroll
    \/ ScrollTimeout

SpecMarker == InitMarker /\ [][NextMarker]_vars

\* a section that is on the page and whose top minus 200 is at or above offset y
Qualifies(s, y) == s \in present /\ offsetTop[s] - 200 <= y

\* what C5 says of the markers for scroll offset y
MarkersFor(y) ==
    /\ Cardinality({d \in dotSections : dots[d].active}) <= 1
    /\ \A k \in 1..Len(Sections) :
           dots[Sections[k]].active <=>
               /\ Qualifies(Sections[k], y)
               /\ \A j \in (k + 1)..Len(Sections) : ~Qualifies(Sections[j], y)
    /\ (\A s \in SectionIds : ~Qualifies(s, y)) => \A d \in dotSections : ~dots[d].active
    /\ ~fault

\* C5: whenever updateActiveNavigation has run (at startup or from the scroll
\* timeout), at most one marker is active, it is the marker of the last section in
\* the fixed order that is present and has top - 200 <= the scroll offset, none is
\* active if no present section qualifies, and missing sections cause no fault.
C5_ActiveMarkerIsLastQualifying ==
    [][(DOMContentLoaded \/ ScrollTimeout) => MarkersFor(scrollY)']_vars

\* C5's case: the header lies below "about", both qualify at the boundary offset, the
\* other sections are missing, and the scroll timeout has marked "about"
C5_Witness ==
    /\ domLoaded
    /\ present = {"header", "about"}
    /\ offsetTop["header"] = 300
    /\ offsetTop["about"] = 0
    /\ scrollY = 100
    /\ scrollTimeout # 0
    /\ timers = <<>>
    /\ dots["about"].active
    /\ ~dots["header"].active

\* C6: updateActiveNavigation is invoked within 16ms of the first scroll event of a
\* window, however many scroll events follow it.
C6_InvokedWithin16ms == sinceTrigger <= 16

\* ---------------------------------------------------- card hover responder
\* mouseenter on card c (lines 111-116)
MouseEnter(c) ==
    /\ hovered = 0
    /\ hovered' = c
    /\ preHover' = [preHover EXCEPT ![c] = cardStyle[c].transform]
    /\ cardStyle' = IF ~prefersReducedMotion
                    THEN [cardStyle EXCEPT ![c].transform = Lifted,
                                           ![c].transition = "transform 0.3s ease"]
                    ELSE cardStyle
    /\ UNCHANGED <<layoutVars, mediaMatches, prefersReducedMotion, domLoaded, skipLink, timers,
                   fault, typingVars, scrollVars, navVars, parallaxVars, focusedCard, preFocus>>

\* mouseleave on card c (lines 118-122)
MouseLeave(c) ==
    /\ hovered = c
    /\ hovered' = 0
    /\ cardStyle' = IF ~prefersReducedMotion
                    THEN [cardStyle EXCEPT ![c].transform = Rest]
                    ELSE cardStyle
    /\ UNCHANGED <<layoutVars, mediaMatches, prefersReducedMotion, domLoaded, skipLink, timers,
                   fault, typingVars, scrollVars, navVars, parallaxVars, focusedCard,
                   preHover, preFocus>>

\* focus on card c (lines 125-133)
CardFocus(c) ==
    /\ focusedCard = 0
    /\ focusedCard' = c
    /\ focused' = "body"
    /\ preFocus' = [preFocus EXCEPT ![c] = cardStyle[c].transform]
    /\ cardStyle' = IF ~prefersReducedMotion
                    THEN [cardStyle EXCEPT ![c].transform = Lifted,
                                           ![c].transition = "transform 0.3s ease",
                                           ![c].outline = "2px solid #007acc",
                                           ![c].outlineOffset = "2px"]
                    ELSE [cardStyle EXCEPT ![c].outline = "2px solid #007acc",
                                           ![c].outlineOffset = "2px"]
    /\ UNCHANGED <<layoutVars, mediaMatches, prefersReducedMotion, domLoaded, skipLink, timers,
                   fault, typingVars, scrollVars, lastScroll, tabindex, announcements,
                   lastNav, renavigated, defaultPrevented, parallaxVars, hovered, preHover>>

\* the blur handler reverting the transform only
BlurredKeepsOutline(c) ==
    IF ~prefersReducedMotion
    THEN [cardStyle EXCEPT ![c].transform = Rest]
    ELSE cardStyle

\* the blur handler's effect on card c's style (lines 135-140)
Blurred(c) ==
    IF ~prefersReducedMotion
    THEN [cardStyle EXCEPT ![c].transform = Rest, ![c].outline = "none"]
    ELSE [cardStyle EXCEPT ![c].outline = "none"]

\* blur on card c: the focus goes back to the page
CardBlur(c) ==
    /\ focusedCard = c
    /\ focusedCard' = 0
    /\ cardStyle' = Blurred(c)
    /\ UNCHANGED <<layoutVars, mediaMatches, prefersReducedMotion, domLoaded, skipLink, timers,
                   fault, typingVars, scrollVars, navVars, parallaxVars, hovered,
                   preHover, preFocus>>

\* A page of project cards only; pointer and keyboard move over them.
InitCard ==
    /\ present = {}
    /\ offsetTop = [s \in AllIds |-> 0]
    /\ dotSections = {}
    /\ subtitlePresent = FALSE
    /\ text = <<>>
    /\ Started

NextCard ==
    \/ DOMContentLoaded
    \/ MediaChange
    \/ \E c \in Cards : MouseEnter(c)
    \/ \E c \in Cards : MouseLeave(c)
    \/ \E c \in Cards : CardFocus(c)
    \/ \E c \in Cards : CardBlur(c)

SpecCard == InitCard /\ [][NextCard]_vars

\* an unset inline transform and the identity transform show the card unlifted alike
SameTransform(a, b) == a = b \/ {a, b} \subseteq {"", Rest}

\* C7: with Motion Preference = false, mouseleave restores the transform the card had
\* before the mouseenter and blur the one it had before the focus; with Motion
\* Preference = true no card event changes the transform.
C7_EnterLeaveRoundTrip ==
    [][\A c \in Cards :
          /\ (~prefersReducedMotion /\ MouseLeave(c)) =>
                 SameTransform(cardStyle'[c].transform, preHover[c])
          /\ (~prefersReducedMotion /\ CardBlur(c)) =>
                 SameTransform(cardStyle'[c].transform, preFocus[c])
          /\ (prefersReducedMotion
                /\ (MouseEnter(c) \/ MouseLeave(c) \/ CardFocus(c) \/ CardBlur(c))) =>
                 cardStyle'[c].transform = cardStyle[c].transform]_vars

\* ------------------------------------------- navigation and announcements
Keys == {"Enter", " ", "Tab"}

Message(sectionId) == <<"Navigating to ", sectionId, " section">>

\* the elements announceToScreenReader has created and not yet seen removed
LiveEls == {a.el : a \in announcements} \cup
           {timers[k].el : k \in {j \in 1..Len(timers) : timers[j].kind = "announce"}}

\* one shared live region, reused while it exists, instead of an element per call
SharedEl == IF LiveEls = {} THEN 1 ELSE CHOOSE n \in LiveEls : TRUE

\* document.createElement('div') (line 239): an element of its own
NewEl == LET live == LiveEls IN CHOOSE n \in 1..(Cardinality(live) + 1) : n \notin live

PendingAnnouncements ==
    Cardinality({k \in 1..Len(timers) : timers[k].kind = "announce"})

\* how a call on the dot with data-section d repeats the call before it
Repeats(d) ==
    IF d # lastNav \/ d \notin present THEN ""
    ELSE IF \E k \in 1..Len(timers) : timers[k].sec = d THEN "overlapped"
    ELSE "after"

\* navigateToSection without its `if (section)` test: the announcement is made
\* before the missing section is noticed
NavigateUnguarded(d) ==
    /\ lastNav' = d
    /\ renavigated' = Repeats(d)
    /\ PendingAnnouncements < MaxAnnounce
    /\ announcements' = announcements \cup {[el |-> NewEl, msg |-> Message(d)]}
    /\ LET a == Timer(0, "announce", AnnounceDelay, 0, d, NewEl)
           withA == Append(timers, a)
       IN timers' = IF d \in present
                    THEN Append(withA, Timer(0, "tabindex", TabindexDelay, 0, d, 0))
                    ELSE withA
    /\ IF d \in present
       THEN /\ lastScroll' = [sec |-> d,
                              behavior |-> IF prefersReducedMotion THEN "auto" ELSE "smooth"]
            /\ tabindex' = [tabindex EXCEPT ![d] = "-1"]
            /\ focused' = d
            /\ focusedCard' = 0
            /\ cardStyle' = IF focusedCard # 0 THEN Blurred(focusedCard) ELSE cardStyle
       ELSE UNCHANGED <<lastScroll, tabindex, focused, focusedCard, cardStyle>>

\* navigateToSection (lines 30-53) on the dot with data-section d, with
\* announceToScreenReader (lines 238-257).  Focusing the section blurs a focused card.
NavigateToSection(d) ==
    /\ lastNav' = d
    /\ renavigated' = Repeats(d)
    /\ IF d \in present
       THEN LET el == NewEl
                a == Timer(0, "announce", AnnounceDelay, 0, d, el)
                withA == Append(timers, a)
            IN /\ tabindex' = [tabindex EXCEPT ![d] = "-1"]
               /\ focused' = d
               /\ PendingAnnouncements < MaxAnnounce
               /\ announcements' = announcements \cup {[el |-> el, msg |-> Message(d)]}
               /\ lastScroll' = [sec |-> d,
                                 behavior |-> IF prefersReducedMotion THEN "auto" ELSE "smooth"]
               /\ focusedCard' = 0
               /\ cardStyle' = IF focusedCard # 0 THEN Blurred(focusedCard) ELSE cardStyle
               /\ timers' = Append(withA, Timer(0, "tabindex", TabindexDelay, 0, d, 0))
       ELSE UNCHANGED <<announcements, lastScroll, tabindex, focused, focusedCard,
                        cardStyle, timers>>

\* click on a dot (lines 17-19)
DotClick(d) ==
    /\ NavigateToSection(d)
    /\ UNCHANGED <<layoutVars, mediaMatches, prefersReducedMotion, domLoaded, skipLink, fault,
                   typingVars, scrollVars, defaultPrevented, parallaxVars,
                   hovered, preHover, preFocus>>

\* the keydown handler testing for Enter only
DotKeydownEnterOnly(d, key) ==
    /\ IF key = "Enter"
       THEN /\ defaultPrevented' = TRUE
            /\ NavigateToSection(d)
       ELSE /\ defaultPrevented' = FALSE
            /\ UNCHANGED <<announcements, lastScroll, tabindex, focused, focusedCard,
                           cardStyle, timers, lastNav, renavigated>>
    /\ UNCHANGED <<layoutVars, mediaMatches, prefersReducedMotion, domLoaded, skipLink, fault,
                   typingVars, scrollVars, parallaxVars, hovered, preHover, preFocus>>

\* keydown on a dot (lines 22-27)
DotKeydown(d, key) ==
    /\ IF key = "Enter" \/ key = " "
       THEN /\ defaultPrevented' = TRUE
            /\ NavigateToSection(d)
       ELSE /\ defaultPrevented' = FALSE
            /\ UNCHANGED <<announcements, lastScroll, tabindex, focused, focusedCard,
                           cardStyle, timers, lastNav, renavigated>>
    /\ UNCHANGED <<layoutVars, mediaMatches, prefersReducedMotion, domLoaded, skipLink, fault,
                   typingVars, scrollVars, parallaxVars, hovered, preHover, preFocus>>

\* the 100ms timeout firing without removing the attribute
RevokeNothing ==
    /\ DueIndex(timers) # 0
    /\ timers[DueIndex(timers)].kind = "tabindex"
    /\ timers' = RemoveAt(timers, DueIndex(timers))
    /\ UNCHANGED <<layoutVars, mediaMatches, prefersReducedMotion, domLoaded, skipLink, fault,
                   typingVars, scrollVars, navVars, parallaxVars, cardVars>>

\* the 100ms timeout of navigateToSection (lines 49-51)
RevokeTabindex ==
    /\ DueIndex(timers) # 0
    /\ timers[DueIndex(timers)].kind = "tabindex"
    /\ tabindex' = [tabindex EXCEPT ![timers[DueIndex(timers)].sec] = ""]
    /\ timers' = RemoveAt(timers, DueIndex(timers))
    /\ UNCHANGED <<layoutVars, mediaMatches, prefersReducedMotion, domLoaded, skipLink, fault,
                   typingVars, scrollVars, lastScroll, focused, announcements, lastNav, renavigated,
                   defaultPrevented, parallaxVars, cardVars>>

\* the removal timeout clearing every live region on the page, not only its own
RemoveAllAnnouncements ==
    /\ DueIndex(timers) # 0
    /\ timers[DueIndex(timers)].kind = "announce"
    /\ IF \E a \in announcements : a.el = timers[DueIndex(timers)].el
       THEN /\ announcements' = {}
            /\ UNCHANGED fault
       ELSE /\ fault' = TRUE
            /\ UNCHANGED announcements
    /\ timers' = RemoveAt(timers, DueIndex(timers))
    /\ UNCHANGED <<layoutVars, mediaMatches, prefersReducedMotion, domLoaded, skipLink,
                   typingVars, scrollVars, lastScroll, tabindex, focused, lastNav, renavigated,
                   defaultPrevented, parallaxVars, cardVars>>

\* the 1000ms timeout of announceToScreenReader (lines 254-256); removeChild throws
\* when the element is not a child of the body
RemoveAnnouncement ==
    /\ DueIndex(timers) # 0
    /\ timers[DueIndex(timers)].kind = "announce"
    /\ LET el == timers[DueIndex(timers)].el
       IN IF \E a \in announcements : a.el = el
          THEN /\ announcements' = {a \in announcements : a.el # el}
               /\ UNCHANGED fault
          ELSE /\ fault' = TRUE
               /\ UNCHANGED announcements
    /\ timers' = RemoveAt(timers, DueIndex(timers))
    /\ UNCHANGED <<layoutVars, mediaMatches, prefersReducedMotion, domLoaded, skipLink,
                   typingVars, scrollVars, lastScroll, tabindex, focused, lastNav, renavigated,
                   defaultPrevented, parallaxVars, cardVars>>

\* A page with two sections and three dots, one of them for a section that is not
\* on the page; the visitor uses the dots.
InitNav ==
    /\ present = {"header", "about"}
    /\ offsetTop = [s \in AllIds |-> IF s = "about" THEN 300 ELSE 0]
    /\ dotSections = {"header", "about", "contact"}
    /\ subtitlePresent = FALSE
    /\ text = <<>>
    /\ Started

TickNav == Tick(AnnounceDelay \div 2)

NextNav ==
    \/ DOMContentLoaded
    \/ MediaChange
    \/ \E d \in dotSections : DotClick(d)
    \/ \E d \in dotSections, key \in Keys : DotKeydown(d, key)
    \/ TickNav
    \/ RevokeTabindex
    \/ RemoveAnnouncement

SpecNav == InitNav /\ [][NextNav]_vars

\* C8: every change of the external preference reloads the page, so the script's
\* value equals the external one again (also for a change between script evaluation
\* and DOMContentLoaded).
C8_EveryChangeReloads ==
    [][mediaMatches' # mediaMatches =>
          (~domLoaded' /\ prefersReducedMotion' = mediaMatches')]_vars

AnnounceTimers == {k \in 1..Len(timers) : timers[k].kind = "announce"}

\* C9: every announcement element on the page holds exactly the message of the call
\* that made it and has exactly one removal timer of its own pending, every pending
\* removal timer finds its element still on the page (no call's element is touched by
\* another call, no removal faults), and with no removal timer left no element is left.
C9_AnnouncementsIndependent ==
    /\ ~fault
    /\ \A a \in announcements :
           /\ Cardinality({k \in AnnounceTimers : timers[k].el = a.el}) = 1
           /\ \A k \in AnnounceTimers :
                  timers[k].el = a.el =>
                      a.msg = <<"Navigating to ", timers[k].sec, " section">>
    /\ \A k \in AnnounceTimers :
           Cardinality({a \in announcements : a.el = timers[k].el}) = 1
    /\ (AnnounceTimers = {} => announcements = {})

\* C9's case: two calls overlapped, the first call's timer has removed the first
\* element, and the second call's element is still there with its own message
C9_Witness ==
    /\ announcements = {[el |-> 2, msg |-> <<"Navigating to ", "about", " section">>]}
    /\ Cardinality(AnnounceTimers) = 1
    /\ lastNav = "about"

\* everything navigateToSection could touch, and the rest of the page
PageState == <<layoutVars, mediaMatches, prefersReducedMotion, domLoaded, skipLink, timers,
               fault, typingVars, scrollVars, lastScroll, tabindex, focused, announcements,
               parallaxVars, cardVars>>

\* C10: navigateToSection on a dot whose section is not on the page inserts no
\* announcement, scrolls nothing, changes no focus or tabindex, schedules no timer
\* and leaves the rest of the state as it was.
C10_MissingTargetIsNoOp ==
    [][\A d \in dotSections \ present :
          (DotClick(d) \/ DotKeydown(d, "Enter") \/ DotKeydown(d, " ")) =>
              UNCHANGED PageState]_vars

\* C10's case: the dot of the missing section was used while the announcement and
\* the tabindex of an earlier navigation were still pending, and both are untouched
C10_Witness ==
    /\ lastNav \in dotSections \ present
    /\ announcements = {[el |-> 1, msg |-> <<"Navigating to ", "header", " section">>]}
    /\ tabindex["header"] = "-1"
    /\ focused = "header"
    /\ Len(timers) = 2

\* C11: with Motion Preference = true the parallax responder has no scroll listener:
\* whatever the visitor scrolls, no animation frame is requested and the body's
\* background position is never set.
C11_NoParallaxUnderReducedMotion ==
    prefersReducedMotion =>
        /\ ~parallaxListener
        /\ ~ticking
        /\ rafQueue = 0
        /\ backgroundPosition = -1

\* C11's case: reduced motion, the page is loaded, and a scroll event has been handled
\* (the navigator's timeout is pending for it) away from the top
C11_Witness ==
    /\ prefersReducedMotion
    /\ domLoaded
    /\ scrollY = 200
    /\ sinceTrigger = 8
    /\ \E k \in 1..Len(timers) : timers[k].kind = "scroll"

\* C12: navigateToSection may be called redundantly.  Once every pending timer has
\* fired, the state after a call on an existing section is the same whether or not
\* the call repeated an earlier call on the same dot (before or after that call's
\* timers fired): the scroll target and the focus are that section, no section is
\* left with a tabindex, no announcement is left, and no step has faulted.
C12_RepeatedNavigateSameEnd ==
    /\ ~fault
    /\ (lastNav \in present /\ timers = <<>>) =>
           /\ lastScroll.sec = lastNav
           /\ focused = lastNav
           /\ \A s \in AllIds : tabindex[s] = ""
           /\ announcements = {}

\* C12's case: the second call came while the first call's timers were pending, and
\* all four timers have fired since
C12_Witness ==
    /\ renavigated = "overlapped"
    /\ lastNav = "header"
    /\ timers = <<>>
    /\ focused = "header"

\* C13: navigateToSection on an existing section gives it tabindex -1 and the focus,
\* and a section carries that tabindex only while a 100ms timer for it is pending:
\* once the pending 100ms timers have fired no section is left focusable.
C13_TabindexIsTransient ==
    /\ [](\A s \in AllIds :
              tabindex[s] # "" =>
                  \E k \in 1..Len(timers) :
                      timers[k].kind = "tabindex" /\ timers[k].sec = s)
    /\ [][\A d \in dotSections \cap present :
              DotClick(d) => (tabindex'[d] = "-1" /\ focused' = d)]_vars

\* C13's case: the 100ms timer of a navigation has fired (its announcement is still
\* up) and the section it focused is no longer focusable
C13_Witness ==
    /\ lastNav = "about"
    /\ focused = "about"
    /\ tabindex["about"] = ""
    /\ Len(timers) = 1
    /\ timers[1].kind = "announce"
    /\ timers[1].left = AnnounceDelay - TabindexDelay

\* what a click on the dot with data-section d does, whatever the key event flag
SameAsClick(d) ==
    /\ NavigateToSection(d)
    /\ UNCHANGED <<layoutVars, mediaMatches, prefersReducedMotion, domLoaded, skipLink, fault,
                   typingVars, scrollVars, parallaxVars, hovered, preHover, preFocus>>

\* C18: a keydown with Enter or Space on a dot does exactly what a click on that dot
\* does and prevents the key's default action; a keydown with any other key changes
\* nothing and does not prevent the default action.
C18_KeyActivationEqualsClick ==
    [][\A d \in dotSections, key \in Keys :
          DotKeydown(d, key) =>
              IF key \in {"Enter", " "}
              THEN defaultPrevented' /\ SameAsClick(d)
              ELSE ~defaultPrevented' /\ UNCHANGED <<PageState, lastNav, renavigated>>]_vars

\* C18's case: a key activation has navigated to "about"
C18_Witness ==
    /\ defaultPrevented
    /\ lastNav = "about"
    /\ focused = "about"
    /\ tabindex["about"] = "-1"
    /\ announcements = {[el |-> 1, msg |-> <<"Navigating to ", "about", " section">>]}

\* ------------------------------------------------ the typing animation run
\* The subtitle page with Motion Preference = false, the preference kept and the skip
\* control left alone.  The browser runs DOMContentLoaded and every due timer, and
\* time passes.
InitTypingRun ==
    /\ present = {}
    /\ offsetTop = [s \in AllIds |-> 0]
    /\ dotSections = {}
    /\ subtitlePresent = TRUE
    /\ text \in Texts
    /\ mediaMatches = FALSE
    /\ prefersReducedMotion = mediaMatches
    /\ Evaluated

NextTypingRun ==
    \/ DOMContentLoaded
    \/ TickTyping
    \/ StartTyping
    \/ TypeWriter

SpecTypingRun ==
    /\ InitTypingRun
    /\ [][NextTypingRun]_vars
    /\ WF_vars(DOMContentLoaded)
    /\ WF_vars(TickTyping)
    /\ WF_vars(StartTyping)
    /\ WF_vars(TypeWriter)

\* Done: the interval is cleared, the full text is shown, the skip control and the
\* live annotation are removed
TypingDone ==
    /\ domLoaded
    /\ timers = <<>>
    /\ i = Len(text)
    /\ subtitleText = text
    /\ skipButton = "detached"
    /\ removals = 1
    /\ ~ariaLive

\* C14: with Motion Preference = false and no skip, the displayed text is always the
\* prefix of the source text of length emitted-count, the annotation and the skip
\* control stay while the timers run, and the presenter eventually reaches Done.
C14_TypingReachesDone ==
    /\ [](domLoaded => (i <= Len(text) /\ subtitleText = SubSeq(text, 1, i)))
    /\ [](domLoaded => (TypingDone \/ (timers # <<>> /\ ariaLive /\ skipButton = "attached")))
    /\ <>TypingDone

\* C14's case: a two-character text of different characters has been typed out
C14_Witness ==
    /\ TypingDone
    /\ Len(text) = 2
    /\ text[1] # text[2]

FocusOutline == "2px solid #007acc"

\* C15 as stated: after a mouseleave and after a blur the card has no focus outline,
\* and a focus applies the outline, under either preference.
C15_LeaveAndBlurClearOutline ==
    [][\A c \in Cards :
          /\ (MouseLeave(c) \/ CardBlur(c)) => cardStyle'[c].outline # FocusOutline
          /\ CardFocus(c) => cardStyle'[c].outline = FocusOutline]_vars

\* C15 as amended: a blur sets the outline to none and a focus applies the outline
\* (with its 2px offset), under either preference; mouseenter and mouseleave leave
\* the outline as it is, so a focused card keeps it when the pointer leaves.
C15_BlurClearsOutline ==
    [][\A c \in Cards :
          /\ CardBlur(c) => cardStyle'[c].outline = "none"
          /\ CardFocus(c) =>
                 (cardStyle'[c].outline = FocusOutline /\ cardStyle'[c].outlineOffset = "2px")
          /\ (MouseEnter(c) \/ MouseLeave(c)) =>
                 cardStyle'[c].outline = cardStyle[c].outline]_vars

\* C15's case: the pointer has left a card that still holds the focus and its outline
C15_Witness ==
    /\ ~prefersReducedMotion
    /\ focusedCard = 1
    /\ hovered = 0
    /\ cardStyle[1].transform = Rest
    /\ cardStyle[1].outline = FocusOutline

\* C19: with Motion Preference = false a card carries the lifted transform exactly
\* when it is hovered or focused.
C19_LiftedIffHoveredOrFocused ==
    ~prefersReducedMotion =>
        \A c \in Cards :
            (cardStyle[c].transform = Lifted) <=> (hovered = c \/ focusedCard = c)

ScrollTimers == {k \in 1..Len(timers) : timers[k].kind = "scroll"}

\* C16: with Motion Preference = false at most one frame update is pending whatever
\* the number of scroll events; the frame sets the background offset to half the
\* scroll offset it finds when it runs and clears the pending flag, and a scroll
\* event that finds no update pending requests one.
C16_OneFramePending ==
    [][/\ rafQueue' <= 1
       /\ AnimationFrame =>
              (2 * backgroundPosition' = 10 * scrollY /\ ~ticking' /\ rafQueue' = 0)
       /\ \A y \in ScrollOffsets :
              (Scroll(y) /\ parallaxListener /\ rafQueue = 0) =>
                  (rafQueue' = 1 /\ ticking')]_vars

\* C16's case: a frame has run at offset 200, the visitor has scrolled back to the
\* top since, and one update is pending for it
C16_Witness ==
    /\ ~prefersReducedMotion
    /\ backgroundPosition = 1000
    /\ scrollY = 0
    /\ ticking
    /\ rafQueue = 1

\* C17: at most one deferred updateActiveNavigation is pending, and it is the one
\* whose handle the listener holds (every scroll event cancelled the one before).
C17_OneScrollTimerPending ==
    /\ Cardinality(ScrollTimers) <= 1
    /\ \A k \in ScrollTimers : timers[k].id = scrollTimeout

\* C17's case: a second scroll event, 8ms after the first, has replaced the timer
C17_Witness ==
    /\ sinceTrigger = 8
    /\ Len(timers) = 1
    /\ timers[1].kind = "scroll"
    /\ timers[1].left = ScrollDelay
    /\ timers[1].id = 2

\* C20: after startup, whenever no deferred scroll update is pending, the markers'
\* active flag, aria-current and aria-label are those of the current scroll offset.
C20_MarkersFreshWhenDrained ==
    (domLoaded /\ ScrollTimers = {}) =>
        /\ MarkersFor(scrollY)
        /\ \A d \in dotSections :
               /\ dots[d].ariaCurrent = (IF dots[d].active THEN "true" ELSE "false")
               /\ dots[d].label = (IF dots[d].active
                                   THEN <<"Current section: ", Capitalized[d]>>
                                   ELSE <<"Navigate to ", Capitalized[d], " section">>)

\* C20's case: the visitor has scrolled down, the timeout has run, and the last
\* section is marked current
C20_Witness ==
    /\ domLoaded
    /\ timers = <<>>
    /\ scrollTimeout # 0
    /\ scrollY = 200
    /\ dots["experience"].active
    /\ dots["experience"].label = <<"Current section: ", "Experience">>
    /\ dots["header"].ariaCurrent = "false"
====
